---- MODULE Spec2Model ----
(***************************************************************************)
(* SmartMerger (src/main.ts, lines 1-360): the merge-all and merge-selected *)
(* commands, the link dialog and its parser, the settings tab, the chunked  *)
(* merge loop, flushContent and writeExternalFile.                          *)
(*                                                                          *)
(* Strings are sequences of one-character strings, one element per UTF-16   *)
(* code unit, so that String.length is Len and + is \o.                     *)
(* Two program constants are scaled down to keep the state space finite:    *)
(* MAX_CONTENT_LENGTH (10 * 1024 * 1024 in the source) and COLLISION_LIMIT  *)
(* (1000 in the source).                                                    *)
(***************************************************************************)
EXTENDS Integers, Sequences, FiniteSets, TLC

(***************************************************************************)
(* Bounds of the model.                                                     *)
(***************************************************************************)
\* number of command invocations in a behaviour of SpecTwice
MaxRuns == 2
\* number of invocations that may be in progress at the same time
MaxActive == 2
\* the wall clock takes the values 0..MaxClock (seconds after the base date)
MaxClock == 1
\* a text typed into the link dialog of SpecParse is made of at most
\* MaxFragments fragments
MaxFragments == 3
\* number of failures injected in one behaviour: reads that throw, store
\* faults of vault.create, mkdirSync or writeFileSync calls that throw
MaxFaults == 2

(***************************************************************************)
(* Program constants.                                                       *)
(***************************************************************************)
\* main.ts:210 and :289, 10 * 1024 * 1024 in the source, scaled
MAX_CONTENT_LENGTH == 21
\* main.ts:181, the 1000 of "i < 1000", scaled
COLLISION_LIMIT == 3

(***************************************************************************)
(* String helpers.                                                          *)
(***************************************************************************)
\* the element of a singleton: The({e(x) : x \in {v}}) is e(v), with v
\* computed once
The(S) == CHOOSE v \in S : TRUE

Digit(n) ==
  CASE n = 0 -> "0" [] n = 1 -> "1" [] n = 2 -> "2" [] n = 3 -> "3"
    [] n = 4 -> "4" [] n = 5 -> "5" [] n = 6 -> "6" [] n = 7 -> "7"
    [] n = 8 -> "8" [] n = 9 -> "9"

\* the decimal rendering of a number inside a template literal
RECURSIVE Digits(_)
Digits(n) == IF n < 10 THEN <<Digit(n)>> ELSE Digits(n \div 10) \o <<Digit(n % 10)>>

\* ('0' + n).slice(-2)
Pad2(n) ==
  LET s == <<"0">> \o Digits(n)
  IN  SubSeq(s, Len(s) - 1, Len(s))

\* String.prototype.trim, over the one whitespace character of the model
RECURSIVE TrimLeft(_)
TrimLeft(s) == IF s # <<>> /\ Head(s) = " " THEN TrimLeft(Tail(s)) ELSE s

RECURSIVE TrimRight(_)
TrimRight(s) ==
  IF s # <<>> /\ s[Len(s)] = " " THEN TrimRight(SubSeq(s, 1, Len(s) - 1)) ELSE s

Trim(s) == TrimRight(TrimLeft(s))

\* index of the last occurrence of character c in s, 0 when there is none
LastIndexOf(str, c) ==
  The({ IF found = {} THEN 0 ELSE CHOOSE k \in found : \A j \in found : j <= k :
        found \in {{k \in 1..Len(s) : s[k] = c} : s \in {str}} })

\* path.extname: from the last "." of the last path segment to the end; empty
\* when there is no "." or the only "." starts the segment
ExtName(fileName) ==
  The({ LET dot == LastIndexOf(seg, ".")
        IN  IF dot <= 1 THEN <<>> ELSE SubSeq(seg, dot, Len(seg)) :
        seg \in {SubSeq(fileName, LastIndexOf(fileName, "/") + 1, Len(fileName))} })

\* path.join(dir, name) for a non-empty dir and a name without "." or ".."
\* segments: one separator between the two
PathJoin(dir, name) ==
  IF dir[Len(dir)] = "/" THEN dir \o name ELSE dir \o <<"/">> \o name

\* TFile.basename: the last path segment without its extension
Basename(path) ==
  The({ SubSeq(seg, 1, Len(seg) - Len(ExtName(seg))) :
        seg \in {SubSeq(path, LastIndexOf(path, "/") + 1, Len(path))} })

\* collation order of the characters that occur in paths of the model
Collation ==
  <<"_", "/", ".", "(", ")", "0", "1", "2", "3", "4", "5", "6", "7", "8", "9",
    "a", "b", "c", "d", "e", "g", "m", "M", "p", "r", "S", "t">>

CollRank(c) == CHOOSE k \in 1..Len(Collation) : Collation[k] = c

\* a.path.localeCompare(b.path): -1, 0 or 1. Lexicographic over the collation
\* ranks; the paths of the model first differ in two letters of different
\* base letter or in two digits, where the locale's comparison is decided by
\* exactly that character.
RECURSIVE LocaleCompare(_, _)
LocaleCompare(a, b) ==
  IF a = <<>> /\ b = <<>> THEN 0
  ELSE IF a = <<>> THEN -1
  ELSE IF b = <<>> THEN 1
  ELSE IF CollRank(Head(a)) < CollRank(Head(b)) THEN -1
  ELSE IF CollRank(Head(a)) > CollRank(Head(b)) THEN 1
  ELSE LocaleCompare(Tail(a), Tail(b))

\* Array.prototype.sort with the localeCompare comparator, of a set of paths
\* (paths are pairwise different, so the sorted array is unique)
RECURSIVE SortByPath(_)
SortByPath(S) ==
  IF S = {} THEN <<>>
  ELSE LET m == CHOOSE x \in S : \A y \in S : LocaleCompare(x, y) <= 0
       IN  <<m>> \o SortByPath(S \ {m})

(***************************************************************************)
(* Literals of the source.                                                  *)
(***************************************************************************)
NL == "\n"

\* const pluginName = 'SmartMerger'
pluginName == <<"S", "m", "a", "r", "t", "M", "e", "r", "g", "e", "r">>

\* the template literal "\n\n## ${basename}\n\n${content}" of the merge loop
Section(basename, content) ==
  <<NL, NL, "#", "#", " ">> \o basename \o <<NL, NL>> \o content

\* the template literal of the catch branch; the nine code units of the
\* Japanese marker "(読み込みエラー)" are written in Latin letters
ReadErrorMark == <<" ", "(", "yo", "mi", "ko", "mi", "e", "ra", "-", ")">>

ErrorSection(basename) ==
  <<NL, NL, "#", "#", " ">> \o basename \o ReadErrorMark \o <<NL, NL>>

\* the formattedDate template: the clock counts seconds from 2025-01-01 00:00:00
FormatDate(t) ==
  Digits(2025) \o Pad2(0 + 1) \o Pad2(1) \o <<"_">>
    \o Pad2(t \div 3600) \o Pad2((t \div 60) % 60) \o Pad2(t % 60)

\* `${pluginName}_${formattedDate}_part${part}.md`
OutputFileName(formattedDate, part) ==
  pluginName \o <<"_">> \o formattedDate \o <<"_", "p", "a", "r", "t">>
    \o Digits(part) \o <<".", "m", "d">>

(***************************************************************************)
(* The link parser: the OK handler of LinkInputModal, lines 63-90.          *)
(***************************************************************************)
\* the end of the longest run of characters other than c that starts at
\* position p of s (p - 1 when the run is empty)
RECURSIVE RunEnd(_, _, _)
RunEnd(s, p, c) ==
  IF p <= Len(s) /\ s[p] # c THEN RunEnd(s, p + 1, c) ELSE p - 1

At(s, p) == IF p \in 1..Len(s) THEN s[p] ELSE "EOF"

\* /\[\[([^\]]+)\]\]/ tried at position p: the position of the match's last
\* character, 0 when there is no match at p. The greedy run is the only
\* split that can match, since a shorter one is followed by a non-"]".
WikiMatchEnd(raw, p) ==
  LET e == RunEnd(raw, p + 2, "]")
  IN  IF /\ At(raw, p) = "[" /\ At(raw, p + 1) = "["
         /\ e >= p + 2
         /\ At(raw, e + 1) = "]" /\ At(raw, e + 2) = "]"
        THEN e + 2 ELSE 0

\* the loop of lines 69-71: wikiRe.exec from lastIndex p, pushing the
\* trimmed first group of each match
RECURSIVE WikiNames(_, _)
WikiNames(raw, p) ==
  IF p > Len(raw) THEN <<>>
  ELSE LET e == WikiMatchEnd(raw, p)
       IN  IF e = 0 THEN WikiNames(raw, p + 1)
           ELSE <<Trim(SubSeq(raw, p + 2, e - 2))>> \o WikiNames(raw, e + 1)

\* /\[([^\]]+)\]\(([^)]+)\)/ tried at position p: the positions of the
\* second group and of the match's last character, or 0
MdMatch(raw, p) ==
  LET e1 == RunEnd(raw, p + 1, "]")
      e2 == RunEnd(raw, e1 + 3, ")")
  IN  IF /\ At(raw, p) = "["
         /\ e1 >= p + 1
         /\ At(raw, e1 + 1) = "]" /\ At(raw, e1 + 2) = "("
         /\ e2 >= e1 + 3
         /\ At(raw, e2 + 1) = ")"
        THEN [from |-> e1 + 3, to |-> e2, end |-> e2 + 1]
        ELSE [from |-> 0, to |-> 0, end |-> 0]

\* the literal 'app://obsidian.md/'
AppPrefix ==
  <<"a", "p", "p", ":", "/", "/", "o", "b", "s", "i", "d", "i", "a", "n", ".",
    "m", "d", "/">>

StartsWith(s, pre) == Len(s) >= Len(pre) /\ SubSeq(s, 1, Len(pre)) = pre

\* the escapes that occur well-formed in the texts of the model, with the
\* character each stands for
EscapeTable == { <<"6", "1", "a">>, <<"2", "0", " ">> }

\* decodeURIComponent: the decoded string, or <<"URIError">> when an escape is
\* malformed. The texts of the model hold no well-formed escape outside
\* EscapeTable.
RECURSIVE DecodeURIComponent(_)
DecodeURIComponent(s) ==
  IF s = <<>> THEN <<>>
  ELSE IF Head(s) # "%"
    THEN LET rest == DecodeURIComponent(Tail(s))
         IN  IF rest = <<"URIError">> THEN rest ELSE <<Head(s)>> \o rest
  ELSE IF \E t \in EscapeTable : At(s, 2) = t[1] /\ At(s, 3) = t[2]
    THEN LET t == CHOOSE t \in EscapeTable : At(s, 2) = t[1] /\ At(s, 3) = t[2]
             rest == DecodeURIComponent(SubSeq(s, 4, Len(s)))
         IN  IF rest = <<"URIError">> THEN rest ELSE <<t[3]>> \o rest
  ELSE <<"URIError">>

\* lines 77-85: trim, strip the prefix, decode or keep
NormalizeTarget(group) ==
  LET trimmed == Trim(group)
      target == IF StartsWith(trimmed, AppPrefix)
                  THEN SubSeq(trimmed, Len(AppPrefix) + 1, Len(trimmed))
                  ELSE trimmed
      decoded == DecodeURIComponent(target)
  IN  IF decoded = <<"URIError">> THEN target ELSE decoded

\* the loop of lines 76-87
RECURSIVE MdNames(_, _)
MdNames(raw, p) ==
  IF p > Len(raw) THEN <<>>
  ELSE LET m == MdMatch(raw, p)
       IN  IF m.end = 0 THEN MdNames(raw, p + 1)
           ELSE <<NormalizeTarget(SubSeq(raw, m.from, m.to))>> \o MdNames(raw, m.end + 1)

\* Array.from(new Set(names)): a Set keeps the order of first insertion
RECURSIVE UniqueNames(_)
UniqueNames(names) ==
  IF names = <<>> THEN <<>>
  ELSE LET init == UniqueNames(SubSeq(names, 1, Len(names) - 1))
           last == names[Len(names)]
       IN  IF \E k \in 1..Len(init) : init[k] = last THEN init ELSE Append(init, last)

\* variant: the labeled-path pass runs before the wiki pass
ParseLinksPathFirst(raw) == UniqueNames(MdNames(raw, 1) \o WikiNames(raw, 1))

\* lines 63-90: uniqueNames of the text of the textarea
ParseLinks(raw) == UniqueNames(WikiNames(raw, 1) \o MdNames(raw, 1))

(***************************************************************************)
(* The documents the store may hold at startup, and the inputs of the       *)
(* settings surface and of the link dialog.                                 *)
(***************************************************************************)
DocA == <<"a", ".", "m", "d">>
DocB == <<"b", ".", "m", "d">>
DocC == <<"c", "/", "a", ".", "m", "d">>

UserDocs == {DocA, DocB, DocC}

\* DocA and DocC are short, DocB alone reaches MAX_CONTENT_LENGTH
DocContent(path) ==
  IF path = DocA THEN <<"1", "2">>
  ELSE IF path = DocB
    THEN <<"3", "4", "5", "6", "7", "8", "9", "3", "4", "5", "6", "7", "8">>
  ELSE <<"7", "8">>

Destinations == {"vault", "external", "both"}

\* texts typed into the external-folder field, or found in the saved data
ExternalDirInputs == {<<>>, <<" ">>, <<" ", "x">>}

\* name lists handed to the submit callback of the link dialog
NameLists ==
  { <<<<"a">>>>, <<<<"z">>>> }

\* pieces of the texts typed into the link dialog: references of both
\* notations, with blanks, the app prefix and escapes, and loose characters
LinkFragments ==
  { <<"[", "[", "a", "]", "]">>,
    <<"[", "[", " ", "b", "]", "]">>,
    <<"[", "[", " ", "]", "]">>,
    <<"[", "x", "]", "(", "a", ")">>,
    <<"[", "x", "]", "(", " ", "b", ")">>,
    <<"[", "x", "]", "(">> \o AppPrefix \o <<"a", ")">>,
    <<"[", "x", "]", "(", "%", "6", "1", ")">>,
    <<"[", "x", "]", "(", "%", ")">>,
    <<"[">>, <<" ">> }

\* the texts of at most n fragments
RECURSIVE TextsOf(_)
TextsOf(n) ==
  IF n = 0 THEN {<<>>}
  ELSE TextsOf(n - 1) \cup {t \o f : t \in TextsOf(n - 1), f \in LinkFragments}

ParseTexts == TextsOf(MaxFragments)

\* the texts typed into the link dialog of SpecDialog: names that match by
\* base name, by path, by both, in two orders, or not at all, and a text
\* without a reference
DialogTexts ==
  { <<"[", "[", "a", "]", "]">>,
    <<"[", "[", "a", "]", "]", "[", "[", "a", ".", "m", "d", "]", "]">>,
    <<"[", "[", "a", ".", "m", "d", "]", "]", "[", "[", "a", "]", "]">>,
    <<"[", "[", "z", "]", "]">>,
    <<"a">> }

\* content of a file found in the external folder at startup
OldContent == <<"o">>

\* a slot holds the state of one invocation in progress, or of the last one
\* that ended in it
Runs == 1..MaxActive

VARIABLES
  settings,   \* this.settings: outputDestination, externalDir
  hasFs,      \* whether window.require provides fs and path (desktop host)
  now,        \* the wall clock, in seconds
  vault,      \* the store: path -> content of every Markdown file
  extDirs,    \* directories that exist outside the store
  extFiles,   \* files outside the store: path -> content
  extWrites,  \* history: the writeFileSync calls that returned, in order
  runs,       \* slot -> the closure state of a command invocation
  started,    \* number of invocations so far
  runsLeft,   \* number of invocations the user will still make
  statusItems,\* ids of the invocations whose item is in the status bar
  timers,     \* ids of the invocations whose removal timer is pending
  faults,     \* number of failures injected so far
  dialog      \* the LinkInputModal: open or not, its textarea, its last outcome

vars == <<settings, hasFs, now, vault, extDirs, extFiles, extWrites, runs, started,
          runsLeft, statusItems, timers, faults, dialog>>

\* no link dialog was opened yet
\* (text is the textarea's value at the last click on OK, names what the
\* handler found in it)
ClosedDialog ==
  [open |-> FALSE, raw |-> <<>>, text |-> <<>>, names |-> <<>>, event |-> "none"]

IdleRun ==
  [ id |-> 0, kind |-> "none", pc |-> "idle", fileNames |-> <<>>, mdFiles |-> <<>>,
    i |-> 0, mergedContent |-> <<>>, partCounter |-> 0, formattedDate |-> <<>>,
    fName |-> <<>>, fContent |-> <<>>, fExternal |-> FALSE, fFinal |-> FALSE,
    statusBarItem |-> "none", statusText |-> <<>>,
    reads |-> <<>>, flushed |-> <<>>, notices |-> <<>> ]

(***************************************************************************)
(* The external folder: writeExternalFile.                                  *)
(***************************************************************************)
Put(f, k, v) == [x \in DOMAIN f \cup {k} |-> IF x = k THEN v ELSE f[x]]

\* fs.existsSync
ExistsSync(fs, target) == target \in DOMAIN fs.files \/ target \in fs.dirs

\* `${baseName}(${i})${ext}` joined to dir
Variant(dir, fileName, i) ==
  LET ext == ExtName(fileName)
      baseName == SubSeq(fileName, 1, Len(fileName) - Len(ext))
  IN  PathJoin(dir, baseName \o <<"(">> \o Digits(i) \o <<")">> \o ext)

\* variant: no probing, the first target is taken
CollisionLoopNone(fs, dir, fileName, target, i) == target

\* the loop "while (fs.existsSync(target) && i < 1000) target = ...(i++)..."
RECURSIVE CollisionLoop(_, _, _, _, _)
CollisionLoop(fs, dir, fileName, target, i) ==
  IF ExistsSync(fs, target) /\ i < COLLISION_LIMIT
    THEN CollisionLoop(fs, dir, fileName, Variant(dir, fileName, i), i + 1)
    ELSE target

\* outcomes of the two calls into the host filesystem that may throw
IoOutcomes == {"ok", "mkdirThrows", "writeThrows"}

\* variant: the configured folder is tested and used without trimming
WriteExternalFileNoTrim(fs, fileName, content, io) ==
  IF ~hasFs THEN [fs |-> fs, notice |-> <<"ExternalDesktopOnly">>]
  ELSE
    LET dir == settings.externalDir IN
    IF dir = <<>> THEN [fs |-> fs, notice |-> <<"ExternalDirNotSet">>]
    ELSE IF io = "mkdirThrows" THEN [fs |-> fs, notice |-> <<"ExternalFailed">>]
    ELSE
      LET made == [fs EXCEPT !.dirs = @ \cup {dir}]
          target == CollisionLoop(made, dir, fileName, PathJoin(dir, fileName), 1)
      IN  IF io = "writeThrows"
            THEN [fs |-> made, notice |-> <<"ExternalFailed">>]
            ELSE [fs |-> [made EXCEPT
                            !.files = Put(@, target, content),
                            !.writes = Append(@, [dir |-> dir, fileName |-> fileName,
                                                  target |-> target,
                                                  existed |-> ExistsSync(made, target),
                                                  content |-> content])],
                  notice |-> <<"ExternalWritten", target>>]

\* writeExternalFile(fileName, content) on the filesystem fs; the result is the
\* filesystem after the call and the Notice shown
WriteExternalFile(fs, fileName, content, io) ==
  IF ~hasFs THEN [fs |-> fs, notice |-> <<"ExternalDesktopOnly">>]
  ELSE
    LET dir == Trim(settings.externalDir) IN
    IF dir = <<>> THEN [fs |-> fs, notice |-> <<"ExternalDirNotSet">>]
    ELSE IF io = "mkdirThrows" THEN [fs |-> fs, notice |-> <<"ExternalFailed">>]
    ELSE
      LET made == [fs EXCEPT !.dirs = @ \cup {dir}]
          target == CollisionLoop(made, dir, fileName, PathJoin(dir, fileName), 1)
      IN  IF io = "writeThrows"
            THEN [fs |-> made, notice |-> <<"ExternalFailed">>]
            ELSE [fs |-> [made EXCEPT
                            !.files = Put(@, target, content),
                            !.writes = Append(@, [dir |-> dir, fileName |-> fileName,
                                                  target |-> target,
                                                  existed |-> ExistsSync(made, target),
                                                  content |-> content])],
                  notice |-> <<"ExternalWritten", target>>]

(***************************************************************************)
(* The merge run. A world w is the run's record and the external            *)
(* filesystem; each operator below is one synchronous stretch of the        *)
(* callback, up to its next await of the store.                             *)
(***************************************************************************)
Notify(run, n) == [run EXCEPT !.notices = Append(@, n)]

SetLastFlush(run, field, val) ==
  [run EXCEPT !.flushed[Len(run.flushed)][field] = val]

\* lines 262-264 / 341-343: the completion report
Complete(w) ==
  [w EXCEPT !.run = Notify([w.run EXCEPT !.pc = "done",
                                         !.statusText = <<"done", Len(w.run.mdFiles)>>],
                           <<"Merged", Len(w.run.mdFiles)>>)]

\* lines 231-233 / 310-312 of the flush
FlushExternal(w, io) ==
  IF ~w.run.fExternal THEN w
  ELSE
    The({ The({ [run |-> SetLastFlush(Notify(v.run, res.notice), "external",
                                      res.notice[1]),
                 fs |-> res.fs] :
                res \in {WriteExternalFile(v.fs, v.run.fName, v.run.fContent, io)} }) :
          v \in {w} })

\* variant: the file name takes the time of the flush, not of the run's start
BeginFlushNow(w, content, part, final, io) ==
  LET outputFileName == OutputFileName(FormatDate(now), part)
      dest == settings.outputDestination
      writeToVault == dest = "vault" \/ dest = "both"
      writeToExternal == dest = "external" \/ dest = "both"
      unit == [fileName |-> outputFileName, content |-> content,
               upto |-> Len(w.run.reads), final |-> final,
               vault |-> IF writeToVault THEN "pending" ELSE "none",
               external |-> IF writeToExternal THEN "pending" ELSE "none"]
      called == [w EXCEPT !.run.fName = outputFileName, !.run.fContent = content,
                          !.run.fExternal = writeToExternal, !.run.fFinal = final,
                          !.run.flushed = Append(@, unit)]
  IN  IF writeToVault THEN [called EXCEPT !.run.pc = "create"]
      ELSE FlushExternal([called EXCEPT !.run.pc = "flushed"], io)

\* flushContent(content, part) / flush(content, idx) up to the await of
\* vault.create, or to its end when the store is not a destination
BeginFlush(w, content, part, final, io) ==
  LET outputFileName == OutputFileName(w.run.formattedDate, part)
      dest == settings.outputDestination
      writeToVault == dest = "vault" \/ dest = "both"
      writeToExternal == dest = "external" \/ dest = "both"
      unit == [fileName |-> outputFileName, content |-> content,
               upto |-> Len(w.run.reads), final |-> final,
               vault |-> IF writeToVault THEN "pending" ELSE "none",
               external |-> IF writeToExternal THEN "pending" ELSE "none"]
      called == [w EXCEPT !.run.fName = outputFileName, !.run.fContent = content,
                          !.run.fExternal = writeToExternal, !.run.fFinal = final,
                          !.run.flushed = Append(@, unit)]
  IN  IF writeToVault THEN [called EXCEPT !.run.pc = "create"]
      ELSE FlushExternal([called EXCEPT !.run.pc = "flushed"], io)

\* variant: the flush after the loop is forgotten
FinalPhaseNoFlush(w, io) == Complete(w)

\* variant: the flush after the loop does not test the buffer
FinalPhaseAlways(w, io) ==
  LET f == BeginFlush(w, w.run.mergedContent, w.run.partCounter, TRUE, io)
  IN  IF f.run.pc = "create" THEN f ELSE Complete(f)

\* lines 258-264 / 337-343
FinalPhase(w, io) ==
  IF w.run.mergedContent # <<>>
    THEN The({ IF f.run.pc = "create" THEN f ELSE Complete(f) :
               f \in {BeginFlush(w, w.run.mergedContent, w.run.partCounter, TRUE, io)} })
    ELSE Complete(w)

\* the loop test and lines 237-240 / 316-319, up to the await of vault.read
LoopHead(w, io) ==
  IF w.run.i < Len(w.run.mdFiles)
    THEN [w EXCEPT !.run.pc = "read",
                   !.run.statusText = <<"progress", w.run.i + 1, Len(w.run.mdFiles)>>]
    ELSE FinalPhase(w, io)

\* variant: a unit that reached no destination stays in the buffer
AfterInLoopFlushRetry(w, io) ==
  LET u == w.run.flushed[Len(w.run.flushed)]
      written == u.vault = "created" \/ u.external = "ExternalWritten"
  IN  LoopHead([w EXCEPT !.run.mergedContent = IF written THEN <<>> ELSE @,
                         !.run.i = @ + 1], io)

\* variant: the buffer is not reset after a flush
AfterInLoopFlushKeepBuffer(w, io) == LoopHead([w EXCEPT !.run.i = @ + 1], io)

\* line 255 / 334 and the loop's i++
AfterInLoopFlush(w, io) ==
  LoopHead([w EXCEPT !.run.mergedContent = <<>>, !.run.i = @ + 1], io)

\* variant: the threshold test is > instead of >=
AfterAppendStrict(w, io) ==
  IF Len(w.run.mergedContent) > MAX_CONTENT_LENGTH
    THEN LET f == BeginFlush([w EXCEPT !.run.partCounter = @ + 1],
                             w.run.mergedContent, w.run.partCounter, FALSE, io)
         IN  IF f.run.pc = "create" THEN f ELSE AfterInLoopFlush(f, io)
    ELSE LoopHead([w EXCEPT !.run.i = @ + 1], io)

\* variant: partCounter is passed without the ++
AfterAppendNoIncrement(w, io) ==
  IF Len(w.run.mergedContent) >= MAX_CONTENT_LENGTH
    THEN LET f == BeginFlush(w, w.run.mergedContent, w.run.partCounter, FALSE, io)
         IN  IF f.run.pc = "create" THEN f ELSE AfterInLoopFlush(f, io)
    ELSE LoopHead([w EXCEPT !.run.i = @ + 1], io)

\* lines 253-256 / 332-335, after the section was appended
AfterAppend(w, io) ==
  IF Len(w.run.mergedContent) >= MAX_CONTENT_LENGTH
    THEN The({ IF f.run.pc = "create" THEN f ELSE AfterInLoopFlush(f, io) :
               f \in {BeginFlush([w EXCEPT !.run.partCounter = @ + 1],
                                 w.run.mergedContent, w.run.partCounter, FALSE, io)} })
    ELSE LoopHead([w EXCEPT !.run.i = @ + 1], io)

(***************************************************************************)
(* Initial states: after onload (loadSettings merges the saved data into    *)
(* DEFAULT_SETTINGS). The store holds any of the user's documents, and      *)
(* possibly a document that has the name of the first part of a run started *)
(* in second 0; the external folder "x" holds none, or some, of the paths   *)
(* writeExternalFile tries for that name.                                   *)
(***************************************************************************)
ExternalDir == <<"x">>

FirstPart == OutputFileName(FormatDate(0), 1)

\* the first k paths writeExternalFile tries for fileName in dir
FirstTargets(dir, fileName, k) ==
  { PathJoin(dir, fileName) : j \in {0} \cap 0..(k - 1) }
    \cup { Variant(dir, fileName, j) : j \in 1..(k - 1) }

\* the store with the documents S, and with the earlier output when old
StoreWith(S, old) ==
  [p \in S \cup (IF old THEN {FirstPart} ELSE {}) |->
     IF p \in S THEN DocContent(p) ELSE OldContent]

InitRest ==
  /\ now = 0
  /\ extWrites = <<>>
  /\ runs = [r \in Runs |-> IdleRun]
  /\ started = 0
  /\ statusItems = {}
  /\ timers = {}
  /\ faults = 0
  /\ dialog = ClosedDialog

\* one invocation, from any startup state
Init ==
  /\ settings \in [outputDestination : Destinations, externalDir : ExternalDirInputs]
  /\ hasFs \in BOOLEAN
  /\ \E S \in SUBSET UserDocs, old \in BOOLEAN : vault = StoreWith(S, old)
  /\ \E k \in {0, COLLISION_LIMIT} :
       /\ extFiles = [p \in FirstTargets(ExternalDir, FirstPart, k) |-> OldContent]
       /\ extDirs = IF k = 0 THEN {} ELSE {ExternalDir}
  /\ runsLeft = 1
  /\ InitRest

\* MaxRuns invocations on a desktop host with the external folder configured
InitTwice ==
  /\ settings \in [outputDestination : {"external", "both"}, externalDir : {<<" ", "x">>}]
  /\ hasFs = TRUE
  /\ vault = StoreWith({DocA}, FALSE)
  /\ \E T \in SUBSET FirstTargets(ExternalDir, FirstPart, COLLISION_LIMIT) :
       /\ extFiles = [p \in T |-> OldContent]
       /\ extDirs = IF T = {} THEN {} ELSE {ExternalDir}
  /\ runsLeft = MaxRuns
  /\ InitRest

(***************************************************************************)
(* Actions.                                                                 *)
(***************************************************************************)
Fs == [dirs |-> extDirs, files |-> extFiles, writes |-> extWrites]

World(r) == [run |-> runs[r], fs |-> Fs]

\* variant: the buffer and the part counter are variables of the plugin,
\* shared by the invocations in progress
BecomeShared(r, w) ==
  /\ runs' = [q \in Runs |->
               IF q = r THEN w.run
               ELSE IF runs[q].pc \in {"read", "create"}
                 THEN [runs[q] EXCEPT !.mergedContent = w.run.mergedContent,
                                      !.partCounter = w.run.partCounter]
               ELSE runs[q]]
  /\ extDirs' = w.fs.dirs
  /\ extFiles' = w.fs.files
  /\ extWrites' = w.fs.writes
  /\ statusItems' = IF w.run.statusBarItem = "shown"
                      THEN statusItems \cup {w.run.id}
                      ELSE statusItems \ {w.run.id}
  /\ timers' = IF w.run.pc = "done" THEN timers \cup {w.run.id} ELSE timers

\* variant: the completion does not set the removal timer
BecomeNoTimer(r, w) ==
  /\ runs' = [runs EXCEPT ![r] = w.run]
  /\ extDirs' = w.fs.dirs
  /\ extFiles' = w.fs.files
  /\ extWrites' = w.fs.writes
  /\ statusItems' = IF w.run.statusBarItem = "shown"
                      THEN statusItems \cup {w.run.id}
                      ELSE statusItems \ {w.run.id}
  /\ timers' = timers

\* the state after a stretch of invocation w.run.id in slot r; line 264 / 343
\* sets the removal timer when the run completes
Become(r, w) ==
  /\ runs' = [runs EXCEPT ![r] = w.run]
  /\ extDirs' = w.fs.dirs
  /\ extFiles' = w.fs.files
  /\ extWrites' = w.fs.writes
  /\ statusItems' = IF w.run.statusBarItem = "shown"
                      THEN statusItems \cup {w.run.id}
                      ELSE statusItems \ {w.run.id}
  /\ timers' = IF w.run.pc = "done" THEN timers \cup {w.run.id} ELSE timers

\* the failures injected by a step: n of the store, and one of the host
\* filesystem when io is a throw that the step ran into (thrown is the step's
\* result, clean its result had nothing thrown)
Inject(n, io, thrown, clean) ==
  /\ faults + n + (IF io # "ok" THEN 1 ELSE 0) <= MaxFaults
  /\ io # "ok" => thrown # clean
  /\ faults' = faults + n + (IF io # "ok" THEN 1 ELSE 0)

\* a slot's invocation is not in progress
Free(r) == runs[r].pc \in {"idle", "done", "aborted"}

\* a new invocation takes the first free slot
NextToStart(r) ==
  /\ runsLeft > 0
  /\ Free(r)
  /\ \A q \in Runs : q < r => ~Free(q)

\* no run is between its start and its completion
Quiet == \A q \in Runs : Free(q)

\* lines 202-215 / 288-294: the run's state before the loop
Started(kind, fileNames, files) ==
  [IdleRun EXCEPT !.id = started + 1, !.kind = kind, !.fileNames = fileNames, !.mdFiles = files,
                  !.pc = "start", !.i = 0, !.mergedContent = <<>>, !.partCounter = 1,
                  !.formattedDate = FormatDate(now),
                  !.statusBarItem = "shown", !.statusText = <<"starting">>]

\* variant: the listing leaves out the documents the plugin wrote
StartAllSkipOutputs(r, io) ==
  /\ NextToStart(r)
  /\ LET mdFiles == SortByPath({f \in DOMAIN vault : ~StartsWith(f, pluginName)})
         step(o) == LoopHead([run |-> Started("all", <<>>, mdFiles), fs |-> Fs], o)
     IN  \E w \in {step(io)} : Become(r, w) /\ Inject(0, io, w, step("ok"))
  /\ started' = started + 1
  /\ runsLeft' = runsLeft - 1
  /\ UNCHANGED <<settings, hasFs, now, vault, dialog>>

\* command smart-merger-all: lines 201-240, up to the first await
StartAll(r, io) ==
  /\ NextToStart(r)
  /\ LET mdFiles == SortByPath(DOMAIN vault)
         step(o) == LoopHead([run |-> Started("all", <<>>, mdFiles), fs |-> Fs], o)
     IN  \E w \in {step(io)} : Become(r, w) /\ Inject(0, io, w, step("ok"))
  /\ started' = started + 1
  /\ runsLeft' = runsLeft - 1
  /\ UNCHANGED <<settings, hasFs, now, vault, dialog>>

Includes(names, x) == \E k \in 1..Len(names) : names[k] = x

\* the documents that match one name, in the order of the listing
MatchesOf(name) ==
  SortByPath({f \in DOMAIN vault : Basename(f) = name \/ f = name})

RECURSIVE JoinMatches(_)
JoinMatches(names) ==
  IF names = <<>> THEN <<>> ELSE MatchesOf(Head(names)) \o JoinMatches(Tail(names))

\* variant: the documents are looked up name by name, without the sort
StartLinksByName(r, fileNames, io) ==
  /\ NextToStart(r)
  /\ LET targetFiles == JoinMatches(fileNames)
         run == Started("links", fileNames, targetFiles)
         step(o) ==
           IF Len(targetFiles) = 0
             THEN [run |-> Notify([run EXCEPT !.pc = "aborted",
                                              !.statusBarItem = "removed"],
                                  <<"NotFound">>),
                   fs |-> Fs]
             ELSE LoopHead([run |-> run, fs |-> Fs], o)
     IN  \E w \in {step(io)} : Become(r, w) /\ Inject(0, io, w, step("ok"))
  /\ started' = started + 1
  /\ runsLeft' = runsLeft - 1
  /\ UNCHANGED <<settings, hasFs, now, vault>>

\* variant: the test of targetFiles.length is missing
StartLinksNoAbort(r, fileNames, io) ==
  /\ NextToStart(r)
  /\ LET targetFiles ==
           SortByPath({f \in DOMAIN vault :
                         Includes(fileNames, Basename(f)) \/ Includes(fileNames, f)})
         run == Started("links", fileNames, targetFiles)
         step(o) == LoopHead([run |-> run, fs |-> Fs], o)
     IN  \E w \in {step(io)} : Become(r, w) /\ Inject(0, io, w, step("ok"))
  /\ started' = started + 1
  /\ runsLeft' = runsLeft - 1
  /\ UNCHANGED <<settings, hasFs, now, vault>>

\* the submit callback of the link dialog: lines 273-319, up to the first await
StartLinks(r, fileNames, io) ==
  /\ NextToStart(r)
  /\ LET targetFiles ==
           SortByPath({f \in DOMAIN vault :
                         Includes(fileNames, Basename(f)) \/ Includes(fileNames, f)})
         run == Started("links", fileNames, targetFiles)
         step(o) ==
           IF Len(targetFiles) = 0
             THEN [run |-> Notify([run EXCEPT !.pc = "aborted",
                                              !.statusBarItem = "removed"],
                                  <<"NotFound">>),
                   fs |-> Fs]
             ELSE LoopHead([run |-> run, fs |-> Fs], o)
     IN  \E w \in {step(io)} : Become(r, w) /\ Inject(0, io, w, step("ok"))
  /\ started' = started + 1
  /\ runsLeft' = runsLeft - 1
  /\ UNCHANGED <<settings, hasFs, now, vault>>

\* the submit callback called with a list of names, the dialog left aside
SubmitNames(r, fileNames, io) == StartLinks(r, fileNames, io) /\ UNCHANGED dialog

\* what a dialog step leaves alone when no run is started
NoRunStep ==
  UNCHANGED <<settings, hasFs, now, vault, extDirs, extFiles, extWrites, runs, started,
              runsLeft, statusItems, timers, faults>>

\* command smart-merger-with-links, lines 272-344: the dialog opens with an
\* empty textarea
OpenLinkDialog ==
  /\ ~dialog.open
  /\ runsLeft > 0
  /\ dialog' = [ClosedDialog EXCEPT !.open = TRUE]
  /\ NoRunStep

\* the user types a text into the textarea
SetValue(raw) ==
  /\ dialog.open
  /\ dialog.raw = <<>>
  /\ raw # <<>>
  /\ dialog' = [dialog EXCEPT !.raw = raw]
  /\ NoRunStep

\* lines 52-56: the cancel button closes the dialog
ClickCancel ==
  /\ dialog.open
  /\ dialog' = [ClosedDialog EXCEPT !.event = "cancel"]
  /\ NoRunStep

\* variant: the test of uniqueNames.length is missing
ClickOKNoTest(r, io) ==
  /\ dialog.open
  /\ LET uniqueNames == ParseLinks(dialog.raw)
     IN  /\ dialog' = [dialog EXCEPT !.open = FALSE, !.text = dialog.raw,
                                     !.names = uniqueNames, !.event = "submit"]
         /\ StartLinks(r, uniqueNames, io)

\* lines 62-97: the OK button. With no name found the Notice is shown and the
\* dialog stays open; otherwise the dialog closes and onSubmit runs up to its
\* first await.
ClickOK(r, io) ==
  /\ dialog.open
  /\ LET uniqueNames == ParseLinks(dialog.raw)
     IN  IF Len(uniqueNames) = 0
           THEN /\ dialog' = [dialog EXCEPT !.text = dialog.raw, !.names = uniqueNames,
                                            !.event = "empty"]
                /\ NoRunStep
           ELSE /\ dialog' = [dialog EXCEPT !.open = FALSE, !.text = dialog.raw,
                                            !.names = uniqueNames, !.event = "submit"]
                /\ StartLinks(r, uniqueNames, io)

\* variant: a document whose read throws is skipped
AppendedSkipError(run, ok) ==
  LET file == run.mdFiles[run.i + 1]
  IN  [run EXCEPT !.mergedContent = IF ok THEN @ \o Section(Basename(file), vault[file])
                                         ELSE @,
                  !.reads = Append(@, ok)]

\* lines 239-252 / 318-331: the try and the catch around vault.read
Appended(run, ok) ==
  LET file == run.mdFiles[run.i + 1]
      section == IF ok THEN Section(Basename(file), vault[file])
                       ELSE ErrorSection(Basename(file))
  IN  [run EXCEPT !.mergedContent = @ \o section, !.reads = Append(@, ok)]

\* variant: the run stores the trimmed folder back into the settings
ReadReturnSavesDir(r, ok, io) ==
  /\ runs[r].pc = "read"
  /\ LET step(o) == AfterAppend([run |-> Appended(runs[r], ok), fs |-> Fs], o)
     IN  \E w \in {step(io)} :
           Become(r, w) /\ Inject(IF ok THEN 0 ELSE 1, io, w, step("ok"))
  /\ settings' = [settings EXCEPT !.externalDir = Trim(@)]
  /\ UNCHANGED <<hasFs, now, vault, started, runsLeft, dialog>>

\* the await of vault.read returns or throws: lines 240-256 / 319-335, and on
\* to the next await
ReadReturn(r, ok, io) ==
  /\ runs[r].pc = "read"
  /\ \E appended \in {[run |-> Appended(runs[r], ok), fs |-> Fs]} :
       \E w \in {AfterAppend(appended, io)}, clean \in {AfterAppend(appended, "ok")} :
         Become(r, w) /\ Inject(IF ok THEN 0 ELSE 1, io, w, clean)
  /\ UNCHANGED <<settings, hasFs, now, vault, started, runsLeft, dialog>>

\* variant: the external write is inside the try of the store's create
FlushRestStopOnError(w, created, io) ==
  IF created
    THEN FlushExternal(
           [w EXCEPT !.run = [SetLastFlush(Notify(w.run, <<"Created", w.run.fName>>),
                                           "vault", "created")
                                EXCEPT !.pc = "flushed"]], io)
    ELSE [w EXCEPT !.run = [SetLastFlush(Notify(w.run, <<"VaultError">>),
                                         "vault", "failed")
                              EXCEPT !.pc = "flushed"]]

\* lines 225-233 / 304-312: the rest of the flush once vault.create returned
\* (created) or threw
FlushRest(w, created, io) ==
  LET told == IF created
                THEN SetLastFlush(Notify(w.run, <<"Created", w.run.fName>>),
                                  "vault", "created")
                ELSE SetLastFlush(Notify(w.run, <<"VaultError">>), "vault", "failed")
  IN  FlushExternal([w EXCEPT !.run = [told EXCEPT !.pc = "flushed"]], io)

\* the await of vault.create returns or throws: lines 224-233 / 303-312, then
\* back in the caller, on to the next await. The store refuses a name that
\* exists; fault is any other failure of the store.
CreateReturn(r, fault, io) ==
  /\ runs[r].pc = "create"
  /\ LET run == runs[r]
         name == run.fName
         created == ~fault /\ name \notin DOMAIN vault
         step(o) ==
           The({ IF run.fFinal THEN Complete(flushed) ELSE AfterInLoopFlush(flushed, o) :
                 flushed \in {FlushRest([run |-> run, fs |-> Fs], created, o)} })
     IN  /\ fault => name \notin DOMAIN vault
         /\ vault' = IF created THEN Put(vault, name, run.fContent) ELSE vault
         /\ \E w \in {step(io)}, clean \in {step("ok")} :
              Become(r, w) /\ Inject(IF fault THEN 1 ELSE 0, io, w, clean)
  /\ UNCHANGED <<settings, hasFs, now, started, runsLeft, dialog>>

\* the callback of setTimeout(() => statusBarItem.remove(), 5000)
RemoveStatusItem(id) ==
  /\ id \in timers
  /\ timers' = timers \ {id}
  /\ statusItems' = statusItems \ {id}
  /\ UNCHANGED <<settings, hasFs, now, vault, extDirs, extFiles, extWrites, runs,
                 started, runsLeft, faults, dialog>>

\* settings tab, lines 128-131
ChangeDestination(value) ==
  /\ value # settings.outputDestination
  /\ settings' = [settings EXCEPT !.outputDestination = value]
  /\ UNCHANGED <<hasFs, now, vault, extDirs, extFiles, extWrites, runs, started,
                 runsLeft, statusItems, timers, faults, dialog>>

\* settings tab, lines 140-143
ChangeExternalDir(val) ==
  /\ settings' = [settings EXCEPT !.externalDir = Trim(val)]
  /\ UNCHANGED <<hasFs, now, vault, extDirs, extFiles, extWrites, runs, started,
                 runsLeft, statusItems, timers, faults, dialog>>

\* a second passes
Tick ==
  /\ now < MaxClock
  /\ now' = now + 1
  /\ UNCHANGED <<settings, hasFs, vault, extDirs, extFiles, extWrites, runs, started,
                 runsLeft, statusItems, timers, faults, dialog>>

Next ==
  \/ \E r \in Runs, io \in IoOutcomes : Quiet /\ StartAll(r, io)
  \/ \E r \in Runs, names \in NameLists, io \in IoOutcomes :
       Quiet /\ SubmitNames(r, names, io)
  \/ \E r \in Runs, ok \in BOOLEAN, io \in IoOutcomes : ReadReturn(r, ok, io)
  \/ \E r \in Runs, fault \in BOOLEAN, io \in IoOutcomes : CreateReturn(r, fault, io)
  \/ Tick

\* one command invocation at a time, with the settings loaded at startup
Spec == Init /\ [][Next]_vars

SpecTwice == InitTwice /\ [][Next]_vars

\* the link dialog, one text of ParseTexts typed into it, over a store of one
\* document, the external folder being the destination
InitParse ==
  /\ settings = [outputDestination |-> "external", externalDir |-> ExternalDir]
  /\ hasFs = TRUE
  /\ vault = StoreWith({DocB}, FALSE)
  /\ extFiles = <<>>
  /\ extDirs = {}
  /\ runsLeft = 1
  /\ InitRest

RunSteps ==
  \/ \E r \in Runs, ok \in BOOLEAN, io \in IoOutcomes : ReadReturn(r, ok, io)
  \/ \E r \in Runs, fault \in BOOLEAN, io \in IoOutcomes : CreateReturn(r, fault, io)

NextParse ==
  \/ OpenLinkDialog
  \/ \E raw \in ParseTexts : SetValue(raw)
  \/ ClickCancel
  \/ \E r \in Runs, io \in IoOutcomes : Quiet /\ ClickOK(r, io)
  \/ \E r \in Runs, ok \in BOOLEAN, io \in IoOutcomes : ReadReturn(r, ok, io)

SpecParse == InitParse /\ [][NextParse]_vars

\* MaxRuns uses of the link dialog over three stores, the external folder being
\* the destination; a run may be started while an earlier one is in progress
InitDialog ==
  /\ settings = [outputDestination |-> "external", externalDir |-> ExternalDir]
  /\ hasFs = TRUE
  /\ \E S \in {{DocB}, {DocA, DocC}, UserDocs} : vault = StoreWith(S, FALSE)
  /\ extFiles = <<>>
  /\ extDirs = {}
  /\ runsLeft = MaxRuns
  /\ InitRest

NextDialog ==
  \/ OpenLinkDialog
  \/ \E raw \in DialogTexts : SetValue(raw)
  \/ ClickCancel
  \/ \E r \in Runs, io \in IoOutcomes : ClickOK(r, io)
  \/ \E r \in Runs, ok \in BOOLEAN, io \in IoOutcomes : ReadReturn(r, ok, io)

SpecDialog == InitDialog /\ [][NextDialog]_vars

\* texts typed into the external-folder field while the plugin runs
LiveDirInputs == {<<>>, <<"y">>, <<" ", "x">>}

\* one merge-all run on a desktop host, over a store that gives two parts,
\* with the settings tab in use
InitLive ==
  /\ settings \in [outputDestination : Destinations,
                   externalDir : {<<" ", "x">>, <<"y">>}]
  /\ hasFs = TRUE
  /\ \E S \in {{DocB, DocC}, UserDocs} : vault = StoreWith(S, FALSE)
  /\ extFiles = <<>>
  /\ extDirs = {}
  /\ runsLeft = 1
  /\ InitRest

NextLive ==
  \/ \E r \in Runs, io \in IoOutcomes : Quiet /\ StartAll(r, io)
  \/ RunSteps
  \/ \E value \in Destinations : ChangeDestination(value)
  \/ \E val \in LiveDirInputs : ChangeExternalDir(val)

SpecLive == InitLive /\ [][NextLive]_vars

\* MaxRuns invocations on a desktop host, started at any moment, also while
\* another is suspended at a read or a create
InitConcurrent ==
  /\ settings = [outputDestination |-> "vault", externalDir |-> ExternalDir]
  /\ hasFs = TRUE
  /\ vault = StoreWith({DocB, DocC}, FALSE)
  /\ extFiles = <<>>
  /\ extDirs = {}
  /\ runsLeft = MaxRuns
  /\ InitRest

NextConcurrent ==
  \/ \E r \in Runs, io \in IoOutcomes : StartAll(r, io)
  \/ \E r \in Runs, names \in NameLists, io \in IoOutcomes : SubmitNames(r, names, io)
  \/ RunSteps

SpecConcurrent == InitConcurrent /\ [][NextConcurrent]_vars

\* MaxRuns invocations, one at a time, writing to the store or to the
\* external folder, whose reads and creates return, with or without a
\* failure, and whose removal timers fire, possibly after the next
\* invocation started
InitEnd ==
  /\ settings \in [outputDestination : {"vault", "external"}, externalDir : {ExternalDir}]
  /\ hasFs = TRUE
  /\ vault = StoreWith({DocB, DocC}, FALSE)
  /\ extFiles = <<>>
  /\ extDirs = {}
  /\ runsLeft = MaxRuns
  /\ InitRest

ReadReturns(r) == \E ok \in BOOLEAN, io \in IoOutcomes : ReadReturn(r, ok, io)

CreateReturns(r) == \E fault \in BOOLEAN, io \in IoOutcomes : CreateReturn(r, fault, io)

Ids == 1..MaxRuns

NextEnd ==
  \/ \E r \in Runs, io \in IoOutcomes : Quiet /\ StartAll(r, io)
  \/ \E r \in Runs, names \in NameLists, io \in IoOutcomes :
       Quiet /\ SubmitNames(r, names, io)
  \/ \E r \in Runs : ReadReturns(r)
  \/ \E r \in Runs : CreateReturns(r)
  \/ \E id \in Ids : RemoveStatusItem(id)

\* an awaited read or create is settled by the store, and a timer that was
\* set fires
SpecEnd ==
  /\ InitEnd
  /\ [][NextEnd]_vars
  /\ \A r \in Runs : WF_vars(ReadReturns(r)) /\ WF_vars(CreateReturns(r))
  /\ \A id \in Ids : WF_vars(RemoveStatusItem(id))

(***************************************************************************)
(* Vocabulary of the properties.                                            *)
(***************************************************************************)
\* the slots that hold an invocation, and those whose invocation completed
Invoked == {r \in Runs : runs[r].pc # "idle"}

Done == {r \in Runs : runs[r].pc = "done"}

\* the size of the working set
Total(run) == Len(run.mdFiles)

\* the section document k of the working set contributes, given how its read ended
SectionAt(run, k) ==
  IF run.reads[k]
    THEN Section(Basename(run.mdFiles[k]), vault[run.mdFiles[k]])
    ELSE ErrorSection(Basename(run.mdFiles[k]))

\* the sections of documents a..b, concatenated in working-set order
RECURSIVE SectionsFromTo(_, _, _)
SectionsFromTo(run, a, b) ==
  IF a > b THEN <<>> ELSE SectionsFromTo(run, a, b - 1) \o SectionAt(run, b)

\* the contents of the first n units handed to the writer, concatenated
RECURSIVE UnitsContent(_, _)
UnitsContent(run, n) ==
  IF n = 0 THEN <<>> ELSE UnitsContent(run, n - 1) \o run.flushed[n].content

\* the buffer stayed under the threshold after each of the run's appends
NeverReachesThreshold(run) ==
  \A k \in 1..Len(run.reads) : Len(SectionsFromTo(run, 1, k)) < MAX_CONTENT_LENGTH

\* the number of documents a unit starts after: the previous unit's upto
StartsAfter(run, j) == IF j = 1 THEN 0 ELSE run.flushed[j - 1].upto

(***************************************************************************)
(* C1 (as stated): a completed run whose buffer never reached the threshold *)
(* handed exactly one unit to the writer, holding the sections of all its   *)
(* documents in working-set order.                                          *)
(***************************************************************************)
C1_OneUnitForAnyWorkingSet ==
  \A r \in Done :
    NeverReachesThreshold(runs[r]) =>
      /\ Len(runs[r].flushed) = 1
      /\ runs[r].flushed[1].content = SectionsFromTo(runs[r], 1, Total(runs[r]))

(***************************************************************************)
(* C1 (amended): a completed run over a non-empty working set whose buffer  *)
(* never reached the threshold handed exactly one unit to the writer, and   *)
(* the unit's content is the concatenation, in working-set order, of one    *)
(* section per document.                                                    *)
(***************************************************************************)
C1_OneUnitUnderThreshold ==
  \A r \in Done :
    (Total(runs[r]) >= 1 /\ NeverReachesThreshold(runs[r])) =>
      /\ Len(runs[r].flushed) = 1
      /\ runs[r].flushed[1].content = SectionsFromTo(runs[r], 1, Total(runs[r]))

\* a completed run of two documents read without error, in one unit
C1_Witness ==
  \E r \in Done :
    /\ Total(runs[r]) = 2
    /\ runs[r].reads = <<TRUE, TRUE>>
    /\ NeverReachesThreshold(runs[r])
    /\ Len(runs[r].flushed) = 1

(***************************************************************************)
(* C2: every unit handed to the writer is the concatenation of the whole    *)
(* sections of a non-empty range of consecutive documents, the ranges       *)
(* following one another without gap or overlap; while a run awaits a       *)
(* document the units flushed so far followed by the buffer are the         *)
(* sections of the documents read so far, and when it has completed its     *)
(* units, in part order, are the sections of all N documents in             *)
(* working-set order.                                                       *)
(***************************************************************************)
C2_SectionsNeverSplit ==
  \A r \in Invoked :
    LET run == runs[r] IN
    /\ \A j \in 1..Len(run.flushed) :
         /\ StartsAfter(run, j) < run.flushed[j].upto
         /\ run.flushed[j].upto <= Len(run.reads)
         /\ run.flushed[j].content =
              SectionsFromTo(run, StartsAfter(run, j) + 1, run.flushed[j].upto)
    /\ run.pc = "read" =>
         UnitsContent(run, Len(run.flushed)) \o run.mergedContent =
           SectionsFromTo(run, 1, Len(run.reads))
    /\ run.pc = "done" =>
         UnitsContent(run, Len(run.flushed)) = SectionsFromTo(run, 1, Total(run))

\* a completed run in which one document alone reached the threshold and was
\* flushed as a unit of its own, before a second unit
C2_Witness ==
  \E r \in Done :
    /\ Len(runs[r].flushed) = 2
    /\ runs[r].flushed[1].upto = 1
    /\ runs[r].reads[1]
    /\ Len(SectionAt(runs[r], 1)) >= MAX_CONTENT_LENGTH

(***************************************************************************)
(* C3 (as stated): a completed run in which the buffer reached the          *)
(* threshold handed at least 2 units to the writer, and its last-written    *)
(* unit is below the threshold.                                             *)
(***************************************************************************)
AtThreshold(unit) == Len(unit.content) >= MAX_CONTENT_LENGTH

C3_ThresholdUnitNeverLast ==
  \A r \in Done :
    LET run == runs[r] IN
    (\E j \in 1..Len(run.flushed) : AtThreshold(run.flushed[j])) =>
      /\ Len(run.flushed) >= 2
      /\ ~AtThreshold(run.flushed[Len(run.flushed)])

(***************************************************************************)
(* C3 (amended): a completed run in which the buffer reached the threshold  *)
(* at a document that is not the last of the working set handed at least 2  *)
(* units to the writer; every unit but the last-written is at or above the  *)
(* threshold, and the units at or above the threshold are exactly those     *)
(* flushed inside the loop: the unit of the end-of-run flush is below it.   *)
(***************************************************************************)
C3_ThresholdUnitsAreInLoop ==
  \A r \in Done :
    LET run == runs[r] IN
    /\ (\E j \in 1..Len(run.flushed) :
          AtThreshold(run.flushed[j]) /\ run.flushed[j].upto < Total(run))
         => Len(run.flushed) >= 2
    /\ \A j \in 1..Len(run.flushed) :
         /\ AtThreshold(run.flushed[j]) <=> ~run.flushed[j].final
         /\ j < Len(run.flushed) => AtThreshold(run.flushed[j])

\* a completed run whose first document reached the threshold exactly, and
\* that went on to flush a second, smaller unit after the loop
C3_Witness ==
  \E r \in Done :
    /\ Len(runs[r].flushed) = 2
    /\ Len(runs[r].flushed[1].content) = MAX_CONTENT_LENGTH
    /\ runs[r].flushed[1].upto < Total(runs[r])
    /\ runs[r].flushed[2].final

(***************************************************************************)
(* C4: no unit handed to the writer has empty content, and a completed run  *)
(* flushed a unit after the loop if and only if it read a document after    *)
(* its last flush inside the loop: not when its last document triggered a   *)
(* flush, and not when the working set is empty.                            *)
(***************************************************************************)
\* the number of documents read when the last in-loop flush happened
LastInLoopUpto(run) ==
  LET inLoop == {j \in 1..Len(run.flushed) : ~run.flushed[j].final}
  IN  IF inLoop = {} THEN 0
      ELSE run.flushed[CHOOSE j \in inLoop : \A k \in inLoop : k <= j].upto

C4_NoEmptyUnit ==
  \A r \in Invoked :
    LET run == runs[r] IN
    /\ \A j \in 1..Len(run.flushed) : run.flushed[j].content # <<>>
    /\ run.pc = "done" =>
         /\ (\E j \in 1..Len(run.flushed) : run.flushed[j].final)
              <=> LastInLoopUpto(run) < Total(run)
         /\ Cardinality({j \in 1..Len(run.flushed) : run.flushed[j].final}) <= 1

\* a completed run whose last document triggered a flush: no unit after the loop
C4_Witness ==
  \E r \in Done :
    /\ Total(runs[r]) >= 1
    /\ Len(runs[r].flushed) >= 1
    /\ \A j \in 1..Len(runs[r].flushed) : ~runs[r].flushed[j].final
    /\ LastInLoopUpto(runs[r]) = Total(runs[r])

(***************************************************************************)
(* C5: the j-th unit a run hands to the writer is named with the run's one  *)
(* timestamp, taken before the loop, and with part number j, whatever       *)
(* became of the writes of the units before it; the names the store and the *)
(* external folder are asked to write are the units' names.                 *)
(***************************************************************************)
C5_PartNames ==
  \A r \in Invoked :
    LET run == runs[r] IN
    /\ \A j \in 1..Len(run.flushed) :
         run.flushed[j].fileName = OutputFileName(run.formattedDate, j)
    /\ run.pc = "create" => run.fName = run.flushed[Len(run.flushed)].fileName

\* a completed run of two parts, the first of which the store refused, that
\* did not end in the second it started in
C5_Witness ==
  \E r \in Done :
    /\ Len(runs[r].flushed) = 2
    /\ runs[r].flushed[1].vault = "failed"
    /\ runs[r].formattedDate # FormatDate(now)

(***************************************************************************)
(* C6: a run is never aborted by a failing read. When it has completed it   *)
(* has read, or failed to read, each of its N documents once, its units     *)
(* hold N sections in working-set order - the "(read error)" section headed *)
(* by the base name for a document whose read failed, the normal section    *)
(* for every other - and the count it reports is N. While it awaits a       *)
(* document, the documents before that one are all accounted for.           *)
(***************************************************************************)
C6_ReadFailuresKept ==
  \A r \in Invoked :
    LET run == runs[r] IN
    /\ run.pc = "aborted" => run.reads = <<>> /\ Total(run) = 0
    /\ run.pc = "read" => Len(run.reads) = run.i /\ run.i < Total(run)
    /\ run.pc = "done" =>
         /\ Len(run.reads) = Total(run)
         /\ UnitsContent(run, Len(run.flushed)) = SectionsFromTo(run, 1, Total(run))
         /\ run.notices[Len(run.notices)] = <<"Merged", Total(run)>>
         /\ run.statusText = <<"done", Total(run)>>

\* a completed run of three documents, the first and the last of which
\* could not be read
C6_Witness ==
  \E r \in Done : runs[r].reads = <<FALSE, TRUE, FALSE>>

(***************************************************************************)
(* C7 (as stated): writeFileSync is never called on a path that exists.     *)
(***************************************************************************)
C7_NeverWritesExistingPath ==
  \A k \in 1..Len(extWrites) : ~extWrites[k].existed

(***************************************************************************)
(* C8: when the external folder holds no file of the names name.md,         *)
(* name(1).md, ... other than those writeExternalFile wrote for name.md,    *)
(* and name.md was written at most COLLISION_LIMIT times, the write number  *)
(* n+1 went to a path that did not exist - name.md for n = 0, name(n).md    *)
(* otherwise - and every one of these files still holds the content of its  *)
(* write.                                                                   *)
(***************************************************************************)
\* the indexes of the writes of fileName into dir
WritesOf(dir, fileName) ==
  {k \in 1..Len(extWrites) : extWrites[k].dir = dir /\ extWrites[k].fileName = fileName}

\* the path of the n-th name writeExternalFile tries, n = 0 for the plain name
NthTarget(dir, fileName, n) ==
  IF n = 0 THEN PathJoin(dir, fileName) ELSE Variant(dir, fileName, n)

\* every existing file among the names tried for fileName was created by a
\* write of fileName
OnlyOwnFiles(dir, fileName) ==
  \A n \in 0..(COLLISION_LIMIT - 1) :
    NthTarget(dir, fileName, n) \in DOMAIN extFiles =>
      \E k \in WritesOf(dir, fileName) :
        extWrites[k].target = NthTarget(dir, fileName, n) /\ ~extWrites[k].existed

C8_RepeatedWrites ==
  \A k \in 1..Len(extWrites) :
    LET e == extWrites[k]
        same == WritesOf(e.dir, e.fileName)
        n == Cardinality({q \in same : q < k})
    IN  (OnlyOwnFiles(e.dir, e.fileName) /\ Cardinality(same) <= COLLISION_LIMIT) =>
          /\ e.target = NthTarget(e.dir, e.fileName, n)
          /\ ~e.existed
          /\ extFiles[e.target] = e.content

\* the same name written twice with different contents: name.md, then
\* name(1).md, each holding its own content
C8_Witness ==
  \E k \in 1..Len(extWrites) :
    LET e == extWrites[k] IN
    /\ OnlyOwnFiles(e.dir, e.fileName)
    /\ k > 1
    /\ extWrites[1].fileName = e.fileName /\ extWrites[1].dir = e.dir
    /\ extWrites[1].target = PathJoin(e.dir, e.fileName)
    /\ e.target = Variant(e.dir, e.fileName, 1)
    /\ extWrites[1].content # e.content
    /\ extFiles[extWrites[1].target] = extWrites[1].content
    /\ extFiles[e.target] = e.content

(***************************************************************************)
(* C9: of a unit flushed with destination "both", once the flush has        *)
(* returned both writes were attempted whatever became of the other: the    *)
(* external write took place (the file was written, or a Notice says why    *)
(* not) also when the store's create failed, and a document the store       *)
(* created is in the store with the unit's content also when the external   *)
(* write failed. No such failure aborts the run: a run is only ever aborted *)
(* with an empty working set, and a completed run read all its documents    *)
(* and handed all their sections to the writer.                             *)
(***************************************************************************)
\* the flush of unit j of the run has returned to the merge loop
Returned(run, j) == j < Len(run.flushed) \/ run.pc # "create"

ExternalNotices ==
  {"ExternalWritten", "ExternalFailed", "ExternalDesktopOnly", "ExternalDirNotSet"}

C9_BothAttempted ==
  \A r \in Invoked :
    LET run == runs[r] IN
    /\ \A j \in 1..Len(run.flushed) :
         LET u == run.flushed[j] IN
         (u.vault # "none" /\ u.external # "none") =>
           /\ Returned(run, j) =>
                /\ u.vault \in {"created", "failed"}
                /\ u.external \in ExternalNotices
                /\ u.external = "ExternalWritten" <=>
                     \E k \in 1..Len(extWrites) :
                       /\ extWrites[k].fileName = u.fileName
                       /\ extWrites[k].content = u.content
                /\ (hasFs /\ Trim(settings.externalDir) # <<>>) =>
                     u.external \in {"ExternalWritten", "ExternalFailed"}
           /\ u.vault = "created" =>
                u.fileName \in DOMAIN vault /\ vault[u.fileName] = u.content
    /\ run.pc = "aborted" => Total(run) = 0
    /\ run.pc = "done" =>
         /\ Len(run.reads) = Total(run)
         /\ UnitsContent(run, Len(run.flushed)) = SectionsFromTo(run, 1, Total(run))

\* a completed run of two parts with destination "both": the store refused
\* the first part, which was written outside all the same, and the second
\* part was created in the store although its external write failed
C9_Witness ==
  \E r \in Done :
    /\ Len(runs[r].flushed) = 2
    /\ runs[r].flushed[1].vault = "failed"
    /\ runs[r].flushed[1].external = "ExternalWritten"
    /\ runs[r].flushed[2].vault = "created"
    /\ runs[r].flushed[2].external = "ExternalFailed"

(***************************************************************************)
(* C10: while the host has no filesystem capability or the configured       *)
(* external folder is empty after trimming, no step creates or changes a    *)
(* file or directory outside the store; of a unit flushed to the external   *)
(* destination, once the flush has returned, the write was skipped with the *)
(* Notice of the condition, the store's create was attempted if the         *)
(* destination was "both", and a completed run read all its documents.      *)
(***************************************************************************)
ExternalUnavailable == ~hasFs \/ Trim(settings.externalDir) = <<>>

C10_Skipped ==
  ExternalUnavailable =>
    \A r \in Invoked :
      LET run == runs[r] IN
      /\ \A j \in 1..Len(run.flushed) :
           LET u == run.flushed[j] IN
           (u.external # "none" /\ Returned(run, j)) =>
             /\ u.external =
                  IF ~hasFs THEN "ExternalDesktopOnly" ELSE "ExternalDirNotSet"
             /\ \E n \in 1..Len(run.notices) : run.notices[n] = <<u.external>>
             /\ u.vault \in {"none", "created", "failed"}
             /\ settings.outputDestination = "both" => u.vault # "none"
      /\ run.pc = "aborted" => Total(run) = 0
      /\ run.pc = "done" => Len(run.reads) = Total(run)

C10_ExternalSkipped ==
  /\ []C10_Skipped
  /\ [][ExternalUnavailable => UNCHANGED <<extDirs, extFiles, extWrites>>]_vars

\* a completed run of two parts with destination "both" and a folder setting
\* of one blank: both parts created in the store, both external writes skipped
C10_Witness ==
  \E r \in Done :
    /\ hasFs
    /\ settings.externalDir = <<" ">>
    /\ Len(runs[r].flushed) = 2
    /\ \A j \in 1..2 :
         /\ runs[r].flushed[j].vault = "created"
         /\ runs[r].flushed[j].external = "ExternalDirNotSet"

(***************************************************************************)
(* C11: the names the OK handler found in the text are the candidates of    *)
(* the wiki pass followed by those of the labeled-path pass with every      *)
(* later duplicate removed: no two entries are equal, the entries are       *)
(* exactly the candidates, and they stand in the order of their first       *)
(* occurrences in that combined sequence. These names are the ones handed   *)
(* to the submit callback.                                                  *)
(***************************************************************************)
\* the candidates of both passes, in pass order
Candidates(raw) == WikiNames(raw, 1) \o MdNames(raw, 1)

\* the position of the first occurrence of x in c
FirstIndex(c, x) == CHOOSE k \in 1..Len(c) : c[k] = x /\ \A j \in 1..(k - 1) : c[j] # x

\* the OK button was clicked since the dialog was last opened
Confirmed == dialog.event \in {"submit", "empty"}

C11_ParseResult ==
  Confirmed =>
    LET c == Candidates(dialog.text)
        n == dialog.names
    IN  /\ \A i, j \in 1..Len(n) : i # j => n[i] # n[j]
        /\ {n[i] : i \in 1..Len(n)} = {c[k] : k \in 1..Len(c)}
        /\ \A i, j \in 1..Len(n) : i < j => FirstIndex(c, n[i]) < FirstIndex(c, n[j])
        /\ dialog.event = "submit" =>
             \E r \in Invoked : runs[r].id = started /\ runs[r].fileNames = n

\* the text "[x]( b)[[a]][x](a)": the labeled-path candidate b stands before
\* the wiki candidate a in the text and after it in the result, and the
\* second a is dropped
C11_Witness ==
  /\ dialog.event = "submit"
  /\ WikiNames(dialog.text, 1) = << <<"a">> >>
  /\ MdNames(dialog.text, 1) = << <<"b">>, <<"a">> >>
  /\ dialog.names = << <<"a">>, <<"b">> >>
  /\ \E r \in Done : runs[r].fileNames = dialog.names

(***************************************************************************)
(* C12: a click on OK whose text holds no reference, and a click on cancel, *)
(* start no run and touch neither the store nor the external folder: the    *)
(* submit callback is not called. The first shows the Notice and leaves the *)
(* dialog open. The submit callback is only ever called with at least one   *)
(* name, so every merge-selected run has a non-empty list of names.         *)
(***************************************************************************)
C12_NoSubmit ==
  /\ dialog.event = "submit" => Len(dialog.names) >= 1
  /\ (Confirmed /\ Candidates(dialog.text) = <<>>) => (dialog.event = "empty" /\ dialog.open)
  /\ dialog.event = "cancel" => ~dialog.open
  /\ \A r \in Invoked : runs[r].kind = "links" => Len(runs[r].fileNames) >= 1

C12_SubmitOnlyWithNames ==
  /\ []C12_NoSubmit
  /\ [][(dialog' # dialog /\ dialog'.event \in {"empty", "cancel"}) =>
          UNCHANGED <<runs, started, runsLeft, vault, extDirs, extFiles, extWrites,
                      statusItems, timers>>]_vars

\* OK was clicked on the text "a", which holds no reference: Notice shown,
\* dialog open, nothing started
C12_Witness ==
  /\ dialog.event = "empty"
  /\ dialog.text = <<"a">>
  /\ dialog.open
  /\ started = 0
  /\ \A r \in Runs : runs[r] = IdleRun

(***************************************************************************)
(* C13: a merge-selected run whose names match no document of the store is  *)
(* aborted in the step that starts it: it read no document and flushed no   *)
(* unit, the step left the store and the external folder as they were, the  *)
(* only Notice is the one of the condition, no completion message or        *)
(* processed count was produced, and the run takes no further step. Only    *)
(* such a run is ever aborted.                                              *)
(***************************************************************************)
C13_Aborted ==
  \A r \in Invoked :
    LET run == runs[r] IN
    /\ (run.kind = "links" /\ Total(run) = 0) => run.pc = "aborted"
    /\ run.pc = "aborted" =>
         /\ run.kind = "links" /\ Total(run) = 0
         /\ run.reads = <<>> /\ run.flushed = <<>>
         /\ run.notices = << <<"NotFound">> >>
         /\ run.statusText = <<"starting">>
         /\ run.statusBarItem = "removed" /\ run.id \notin statusItems
         /\ run.id \notin timers

C13_NothingFound ==
  /\ []C13_Aborted
  /\ [][\A r \in Runs :
          /\ (runs'[r].pc = "aborted" /\ runs'[r] # runs[r]) =>
               UNCHANGED <<vault, extDirs, extFiles, extWrites>>
          /\ (runs[r].pc = "aborted" /\ runs'[r].id = runs[r].id) => runs'[r] = runs[r]]_vars

\* the name a was submitted over a store that holds b.md only
C13_Witness ==
  \E r \in Invoked :
    /\ runs[r].pc = "aborted"
    /\ runs[r].fileNames = << <<"a">> >>
    /\ DOMAIN vault = {DocB}

(***************************************************************************)
(* C14: the step that starts a merge-selected run makes its working set of  *)
(* exactly the documents of the store whose base name or path equals one of *)
(* the submitted names, each once, in ascending order of path. Two runs     *)
(* over the same store (destination "external": no run adds a document)     *)
(* whose name lists hold the same names, in whatever order, have the same   *)
(* working set.                                                             *)
(***************************************************************************)
NamesOf(run) == {run.fileNames[k] : k \in 1..Len(run.fileNames)}

\* slot r's record run is the working set of names over the store
IsSelection(run, store) ==
  LET ws == run.mdFiles IN
  /\ {ws[k] : k \in 1..Len(ws)} =
       {f \in store : Basename(f) \in NamesOf(run) \/ f \in NamesOf(run)}
  /\ \A i, j \in 1..Len(ws) : i < j => LocaleCompare(ws[i], ws[j]) < 0

C14_SameNamesSameSet ==
  settings.outputDestination = "external" =>
    \A r, q \in Invoked :
      (runs[r].kind = "links" /\ runs[q].kind = "links"
         /\ NamesOf(runs[r]) = NamesOf(runs[q])) => runs[r].mdFiles = runs[q].mdFiles

C14_WorkingSet ==
  /\ []C14_SameNamesSameSet
  /\ [][\A r \in Runs :
          (runs'[r].id # runs[r].id /\ runs'[r].kind = "links") =>
            IsSelection(runs'[r], DOMAIN vault)]_vars

\* a.md matches the names a and a.md, c/a.md the name a: two runs with the
\* names in both orders have the working set a.md, c/a.md
C14_Witness ==
  \E r, q \in Invoked :
    /\ runs[r].fileNames = << <<"a">>, DocA >>
    /\ runs[q].fileNames = << DocA, <<"a">> >>
    /\ runs[r].mdFiles = <<DocA, DocC>>
    /\ runs[q].mdFiles = <<DocA, DocC>>

(***************************************************************************)
(* C15 (as stated): once a flush has returned and before the next append,   *)
(* the buffer is empty and the part counter is one more than the number of  *)
(* flushes made.                                                            *)
(***************************************************************************)
\* the run's last flush has returned and nothing was appended since
JustFlushed(run) ==
  /\ run.flushed # <<>>
  /\ Returned(run, Len(run.flushed))
  /\ run.flushed[Len(run.flushed)].upto = Len(run.reads)

C15_ResetAfterEachFlush ==
  \A r \in Invoked :
    JustFlushed(runs[r]) =>
      /\ runs[r].mergedContent = <<>>
      /\ runs[r].partCounter = Len(runs[r].flushed) + 1

(***************************************************************************)
(* C15 (amended): the part counter starts at 1 and is one more than the     *)
(* number of flushes made inside the loop; a step of the run leaves it as   *)
(* it is or adds one; the j-th flush carries the number j. After a flush    *)
(* made inside the loop has returned the buffer is empty, and it holds the  *)
(* sections appended since. The flush at the end of the run leaves the      *)
(* buffer and the counter as they are.                                      *)
(***************************************************************************)
InLoopFlushes(run) == {j \in 1..Len(run.flushed) : ~run.flushed[j].final}

C15_BufferAndCounter ==
  \A r \in Invoked :
    LET run == runs[r]
        n == Len(run.flushed)
    IN  run.pc # "aborted" =>
          /\ run.partCounter = 1 + Cardinality(InLoopFlushes(run))
          /\ \A j \in 1..n : run.flushed[j].fileName = OutputFileName(run.formattedDate, j)
          /\ (JustFlushed(run) /\ ~run.flushed[n].final) => run.mergedContent = <<>>
          /\ run.pc = "read" =>
               run.mergedContent =
                 SectionsFromTo(run, StartsAfter(run, n + 1) + 1, Len(run.reads))
          /\ (JustFlushed(run) /\ run.flushed[n].final) =>
               /\ run.mergedContent = run.flushed[n].content
               /\ run.partCounter = n

C15_ResetInLoop ==
  /\ []C15_BufferAndCounter
  /\ [][\A r \in Runs :
          (runs'[r].id = runs[r].id) =>
            runs'[r].partCounter \in {runs[r].partCounter, runs[r].partCounter + 1}]_vars

\* a completed run of two parts: the first flushed inside the loop, the
\* second at the end, which is still in the buffer
C15_Witness ==
  \E r \in Done :
    /\ Len(runs[r].flushed) = 2
    /\ ~runs[r].flushed[1].final /\ runs[r].flushed[2].final
    /\ runs[r].mergedContent = runs[r].flushed[2].content
    /\ runs[r].partCounter = 2

(***************************************************************************)
(* C16: the step that starts a merge-all run makes its working set of       *)
(* exactly the documents the store holds at that moment, each once, the     *)
(* parts earlier runs left there included; a merge-selected run selects     *)
(* among the documents the store holds at that moment. No later step of the *)
(* run changes its working set, the run reads documents of the working set  *)
(* only, and a part the run itself created in the store is not in it.       *)
(***************************************************************************)
FilesOf(run) == {run.mdFiles[k] : k \in 1..Len(run.mdFiles)}

C16_OwnPartsNotMerged ==
  \A r \in Invoked :
    LET run == runs[r] IN
    /\ Len(run.reads) <= Total(run)
    /\ run.i <= Total(run)
    /\ \A j \in 1..Len(run.flushed) :
         /\ run.flushed[j].vault = "created" => run.flushed[j].fileName \notin FilesOf(run)
         /\ run.flushed[j].content =
              SectionsFromTo(run, StartsAfter(run, j) + 1, run.flushed[j].upto)

C16_ListingAtStart ==
  /\ []C16_OwnPartsNotMerged
  /\ [][\A r \in Runs :
          /\ (runs'[r].id # runs[r].id /\ runs'[r].kind = "all") =>
               /\ FilesOf(runs'[r]) = DOMAIN vault
               /\ Len(runs'[r].mdFiles) = Cardinality(DOMAIN vault)
          /\ (runs'[r].id # runs[r].id /\ runs'[r].kind = "links") =>
               IsSelection(runs'[r], DOMAIN vault)
          /\ (runs'[r].id = runs[r].id) => runs'[r].mdFiles = runs[r].mdFiles]_vars

\* the second run, a merge-all started a second after the first: the part
\* the first run created is in its working set, the part it created itself
\* is not
C16_Witness ==
  \E r \in Done :
    /\ runs[r].id = 2
    /\ runs[r].kind = "all"
    /\ FirstPart \in FilesOf(runs[r])
    /\ Len(runs[r].flushed) >= 1
    /\ runs[r].flushed[1].vault = "created"
    /\ runs[r].flushed[1].fileName \in DOMAIN vault \ FilesOf(runs[r])

(***************************************************************************)
(* C17: a step that starts or continues a run, or that changes the store or *)
(* the external folder, leaves outputDestination and externalDir as they    *)
(* are: the settings change in steps of the settings tab only.              *)
(***************************************************************************)
C17_RunsKeepSettings ==
  [][(runs' # runs \/ vault' # vault \/ extDirs' # extDirs \/ extFiles' # extFiles
        \/ extWrites' # extWrites \/ started' # started)
       => settings' = settings]_vars

\* a run of two parts completed, an external write failed, and the folder
\* setting still has the untrimmed value it was loaded with, which the
\* handler of the settings tab never assigns
C17_Witness ==
  \E r \in Done :
    /\ Len(runs[r].flushed) = 2
    /\ \E j \in 1..2 : runs[r].flushed[j].external = "ExternalFailed"
    /\ settings.externalDir = <<" ", "x">>

(***************************************************************************)
(* C18 (as stated): the units of one run all have the same destinations:    *)
(* all or none of them went to the store, all or none to the external       *)
(* writer, and those written outside all went to the same folder.           *)
(***************************************************************************)
\* the external writes of the units of a run
WritesOfRun(run) ==
  {k \in 1..Len(extWrites) :
     \E j \in 1..Len(run.flushed) :
       /\ extWrites[k].fileName = run.flushed[j].fileName
       /\ extWrites[k].content = run.flushed[j].content}

C18_SameDestinations ==
  \A r \in Invoked :
    LET run == runs[r] IN
    /\ \A j, k \in 1..Len(run.flushed) :
         /\ (run.flushed[j].vault = "none") = (run.flushed[k].vault = "none")
         /\ (run.flushed[j].external = "none") = (run.flushed[k].external = "none")
    /\ \A a, b \in WritesOfRun(run) : extWrites[a].dir = extWrites[b].dir

(***************************************************************************)
(* C19: with several runs in progress, their steps interleaved, every unit  *)
(* a run flushed holds the sections of consecutive documents of that run's  *)
(* own working set, starting after the previous unit of that run, and       *)
(* carries that run's timestamp and the number of its place among that      *)
(* run's units; the buffer of a run that waits for a read holds the         *)
(* sections that run appended since its last flush, and its part counter    *)
(* counts its own flushes.                                                  *)
(***************************************************************************)
C19_PrivateBufferAndCounter ==
  \A r \in Invoked :
    LET run == runs[r]
        n == Len(run.flushed)
    IN  /\ \A j \in 1..n :
             /\ run.flushed[j].content =
                  SectionsFromTo(run, StartsAfter(run, j) + 1, run.flushed[j].upto)
             /\ StartsAfter(run, j) < run.flushed[j].upto
             /\ run.flushed[j].fileName = OutputFileName(run.formattedDate, j)
        /\ run.pc = "read" =>
             run.mergedContent =
               SectionsFromTo(run, StartsAfter(run, n + 1) + 1, Len(run.reads))
        /\ run.pc \in {"read", "create", "done"} =>
             run.partCounter = 1 + Cardinality(InLoopFlushes(run))
        /\ run.pc = "done" => UnitsContent(run, n) = SectionsFromTo(run, 1, Total(run))

\* two runs over different working sets, both in progress: one has flushed
\* a part and waits for a read, the other has a section in its buffer
C19_Witness ==
  \E r, q \in Invoked :
    /\ r # q
    /\ runs[r].pc = "read" /\ runs[q].pc = "read"
    /\ runs[r].mdFiles # runs[q].mdFiles
    /\ Len(runs[r].flushed) = 1
    /\ runs[q].flushed = <<>> /\ runs[q].mergedContent # <<>>

(***************************************************************************)
(* C20: a unit whose flush has returned without any destination written     *)
(* (the store's create failed or was not asked for, the external write      *)
(* failed, was skipped or was not asked for) is not the content of the      *)
(* store's document of its name, and no external write was made for its     *)
(* name; it is not flushed again: the units after it                        *)
(* hold the sections of later documents only, and no other unit has its     *)
(* name; after such a flush inside the loop the buffer is empty; and the    *)
(* completed run reports all its documents.                                 *)
(***************************************************************************)
\* no destination of unit u was written
Dropped(u) ==
  /\ u.vault \in {"none", "failed"}
  /\ u.external \in {"none", "ExternalFailed", "ExternalDesktopOnly", "ExternalDirNotSet"}

Ended(r) == runs[r].pc \in {"done", "aborted"}

\* slot r took a read: it was awaiting the document after the ones read
ReadIsNext(r) ==
  (runs'[r].id = runs[r].id /\ runs'[r].reads # runs[r].reads) =>
    /\ runs[r].pc = "read"
    /\ Len(runs'[r].reads) = Len(runs[r].reads) + 1
    /\ runs[r].i + 1 = Len(runs'[r].reads)
    /\ Len(runs'[r].reads) <= Total(runs[r])

C21_Terminates ==
  /\ [](\A r \in Invoked :
         /\ Len(runs[r].flushed) <= Total(runs[r])
         /\ runs[r].pc = "done" => Len(runs[r].reads) = Total(runs[r])
         /\ runs[r].pc = "aborted" =>
              Total(runs[r]) = 0 /\ runs[r].reads = <<>> /\ runs[r].flushed = <<>>)
  /\ [][\A r \in Runs : ReadIsNext(r)]_vars
  /\ \A r \in Runs : [](~Free(r) => <>Ended(r))
  /\ \A id \in Ids : <>[](id \notin statusItems)

\* the first run completed, having written a part to the store, and its
\* timer fired; the second found nothing: neither has an item in the bar
C21_Witness ==
  \E r \in Runs :
    /\ runs[r].pc = "aborted"
    /\ runs[r].id = 2
    /\ \E f \in DOMAIN vault : StartsWith(f, pluginName)
    /\ statusItems = {}
    /\ timers = {}

====
